---- MODULE Spec2Model ----
(***************************************************************************)
(* Upload scheduling and rate-limit back-off of the f451 Labs piRED         *)
(* applications: the main loop of f451_pired/sensemon.py (main) and the     *)
(* main loops of src/pired.py and src/enviromon.py.                         *)
(*                                                                         *)
(* One behaviour is one run of one of the programs (prog).  Time is the    *)
(* value of time.time() in whole seconds (now).                            *)
(***************************************************************************)
EXTENDS Integers, Sequences, FiniteSets, TLC

\* ------------------------------------------------------------------------
\* Bounds of the model
\* ------------------------------------------------------------------------
\* A run is followed for MaxTicks sensor waits (MaxTicks * ioWait seconds).
MaxTicks == 30
\* The joystick is moved at most MaxPresses times in a run.
MaxPresses == 2

\* ------------------------------------------------------------------------
\* Program constants
\* ------------------------------------------------------------------------
DEF_FREQ == 600
DEF_DELAY == 300
DEF_WAIT == 1
DEF_THROTTLE == 120
APP_MIN_SENSOR_READ_WAIT == 1
APP_MIN_PROG_WAIT == 5
APP_WAIT_1SEC == 1
\* time.sleep(10): the body of the try statement of the upload attempt
UPLOAD_SLEEP == 10
MAX_LEN_CPU_TEMPS == 5
DEF_UPLOADS == -1
ROTATE_90 == 90
DISPL_BLANK == 0
DISPL_TEMP == 1
DISPL_PRESS == 2
DISPL_HUMID == 3
DISPL_SPARKLE == 4

KWD_FREQ == "FREQ"
KWD_DELAY == "DELAY"
KWD_WAIT == "WAIT"
KWD_THROTTLE == "THROTTLE"
KWD_SLEEP == "SLEEP"
KWD_DISPLAY == "DISPLAY"
KWD_TEMP_COMP == "TEMP_COMP"
KWD_MAX_LEN_CPU_TEMPS == "CPU_TEMPS"

VARIABLES
    prog,             \* the program that runs
    pc,               \* position of the main thread
    now,              \* time.time()
    exitStatus,       \* exit status of the process
    CONFIG,           \* settings.toml as loaded
    cliArgs,          \* parsed command line: uploads, cron
    timeUpdate, timeCurrent, timeSinceUpdate,
    uploadDelay, numUploads, exitNow,
    tempRaw, tempComp, pressRaw, humidRaw,
    handed,           \* arguments passed to upload_sensor_data in this tick
    outcome,          \* how the upload attempt of this tick ended
    delayBefore,      \* uploadDelay when the upload attempt of this tick began
    throttleRun,      \* ThrottlingErrors since the last success
    interrupted,      \* a KeyboardInterrupt was raised
    EXIT_NOW,         \* pired.py / helpers.py: the global flag exit_now sets
    importedExitNow,  \* enviromon.py: the name EXIT_NOW bound by its import
    delayCounter, maxDelay,
    reading,          \* pired.py: tempC, press, humid of the tick
    inFlight,         \* upload attempts begun and not ended
    recorded,         \* senseData holds the readings of this tick
    cleanedUp,        \* the clean-up after the loop has run
    cpuTempsQ,        \* the window of CPU temperatures
    cpuSampled,       \* SENSE_HAT.get_CPU_temp was called
    cpuTempAvg,       \* the average of the window, as computed in the tick
    feeds,            \* results of the feed look-ups at start-up
    sleepCounter,     \* pired.py: ticks left until the LED is blanked
    displMode,        \* pired.py: what the LED shows
    displRotation,    \* pired.py: rotation of the LED
    loaded,           \* main thread: piRED.sleepCounter as loaded by -= 1
    stickPc,          \* joystick thread: the handler that has yet to store sleepCounter
    presses,          \* joystick events so far
    lastAttempt,      \* pired.py: time of the last upload attempt, -1 when there was none
    led,              \* pired.py: what the display step of the tick has just written to the LED
    sends             \* results of the three sends of the attempt of this tick

schedVars == <<timeUpdate, timeCurrent, timeSinceUpdate, uploadDelay, numUploads, exitNow>>
sampleVars == <<tempRaw, tempComp, pressRaw, humidRaw>>
setupVars == <<prog, CONFIG, cliArgs>>
obsVars == <<handed, outcome, delayBefore, throttleRun, interrupted>>
piredVars == <<EXIT_NOW, importedExitNow, delayCounter, maxDelay, reading, sends>>
senseVars == <<schedVars, sampleVars, obsVars>>
displVars == <<sleepCounter, displMode, displRotation, loaded, stickPc, presses>>
vars == <<pc, now, exitStatus, setupVars, schedVars, sampleVars, obsVars, piredVars,
          inFlight, recorded, cleanedUp, cpuTempsQ, cpuSampled, cpuTempAvg, feeds,
          displVars, lastAttempt, led>>

\* the exit status of the process: <<>> while it runs, <<n>> once it ended with n
NoStatus == <<>>
NoCall == <<>>
NoOutcome == "none"

Max(a, b) == IF a >= b THEN a ELSE b

\* dict.get(key, default)
Get(d, key, default) == IF key \in DOMAIN d THEN d[key] ELSE default

\* ------------------------------------------------------------------------
\* Temperatures and the damping factor are Python floats; the model
\* computes with them as exact fractions <<numerator, denominator>>, the
\* denominator positive.  A value has more than one such pair: values are
\* compared with FracEq and FracGT.
\* ------------------------------------------------------------------------
Frac(n, d) == <<n, d>>

\* float(n)
Float(n) == Frac(n, 1)

\* a + b, a - b, a / b (b not 0), a == b, a > b
FracAdd(a, b) == Frac(a[1] * b[2] + b[1] * a[2], a[2] * b[2])
FracSub(a, b) == Frac(a[1] * b[2] - b[1] * a[2], a[2] * b[2])
FracDiv(a, b) ==
    IF b[1] > 0
    THEN Frac(a[1] * b[2], a[2] * b[1])
    ELSE Frac(-(a[1] * b[2]), -(a[2] * b[1]))
FracEq(a, b) == a[1] * b[2] = b[1] * a[2]
FracGT(a, b) == a[1] * b[2] > b[1] * a[2]

\* sum(q)
RECURSIVE Sum(_)
Sum(q) == IF q = <<>> THEN Float(0) ELSE FracAdd(Head(q), Sum(Tail(q)))

\* DEF_TEMP_COMP_FACTOR = 2.25
DEF_TEMP_COMP_FACTOR == Frac(9, 4)

\* ------------------------------------------------------------------------
\* Inputs: configurations, command lines, sensor readings
\* ------------------------------------------------------------------------
\* TEMP_COMP = 0: no compensation
CompOff == KWD_TEMP_COMP :> Float(0)

Configs ==
    { [k \in {KWD_WAIT} |-> 120] @@ CompOff,
      [k \in {KWD_FREQ, KWD_DELAY, KWD_WAIT, KWD_THROTTLE} |->
          CASE k = KWD_FREQ -> 30 [] k = KWD_DELAY -> 20
            [] k = KWD_WAIT -> 5 [] k = KWD_THROTTLE -> 10] @@ CompOff,
      [k \in {KWD_FREQ, KWD_DELAY, KWD_WAIT, KWD_THROTTLE} |->
          CASE k = KWD_FREQ -> 5 [] k = KWD_DELAY -> 0
            [] k = KWD_WAIT -> 0 [] k = KWD_THROTTLE -> 5] @@ CompOff,
      [k \in {KWD_FREQ, KWD_DELAY, KWD_WAIT, KWD_THROTTLE} |->
          CASE k = KWD_FREQ -> 20 [] k = KWD_DELAY -> 40
            [] k = KWD_WAIT -> 10 [] k = KWD_THROTTLE -> 0] @@ CompOff,
      [k \in {KWD_FREQ, KWD_DELAY, KWD_WAIT, KWD_THROTTLE} |->
          CASE k = KWD_FREQ -> 30 [] k = KWD_DELAY -> 30
            [] k = KWD_WAIT -> 10 [] k = KWD_THROTTLE -> -10] @@ CompOff,
      [k \in {KWD_FREQ, KWD_DELAY, KWD_WAIT, KWD_THROTTLE} |->
          CASE k = KWD_FREQ -> 20 [] k = KWD_DELAY -> 0
            [] k = KWD_WAIT -> 10 [] k = KWD_THROTTLE -> 0] @@ CompOff }

\* configurations of the compensation: the defaults (TEMP_COMP 2.25,
\* CPU_TEMPS 5), factors 1 and 0.5 with small windows and uploads going on,
\* and factors 0 and -1
CompConfigs ==
    { [k \in {KWD_WAIT} |-> 1],
      (KWD_TEMP_COMP :> Frac(1, 1)) @@ (KWD_MAX_LEN_CPU_TEMPS :> 2)
          @@ (KWD_DELAY :> 3) @@ (KWD_FREQ :> 12) @@ (KWD_THROTTLE :> 0),
      (KWD_TEMP_COMP :> Frac(1, 2)) @@ (KWD_MAX_LEN_CPU_TEMPS :> 1),
      (KWD_TEMP_COMP :> Float(0)) @@ (KWD_MAX_LEN_CPU_TEMPS :> 3),
      (KWD_TEMP_COMP :> Frac(-1, 1)) @@ (KWD_MAX_LEN_CPU_TEMPS :> 2)
          @@ (KWD_WAIT :> -2) }

Uploads == {-1, 0, 1, 3}

\* (temperature, pressure, humidity) as read from the Sense HAT
Readings == { <<20, 1000, 40>>, <<22, 1010, 45>> }

\* SENSE_HAT.get_CPU_temp(False)
CpuTemps == {22, 49}

Outcomes == {"Success", "RateLimited", "Fatal", "Interrupt"}

\* ------------------------------------------------------------------------
\* sensemon.main: core settings
\* ------------------------------------------------------------------------
ioFreq == Get(CONFIG, KWD_FREQ, DEF_FREQ)
ioDelay == Get(CONFIG, KWD_DELAY, DEF_DELAY)
\* ioWait = CONFIG.get(const.KWD_WAIT, const.DEF_WAIT)
ioWait_NoFloor == Get(CONFIG, KWD_WAIT, DEF_WAIT)

ioWait == Max(Get(CONFIG, KWD_WAIT, DEF_WAIT), APP_MIN_SENSOR_READ_WAIT)
ioThrottle == Get(CONFIG, KWD_THROTTLE, DEF_THROTTLE)
ioUploadAndExit == cliArgs.cron
maxUploads == cliArgs.uploads

Horizon == MaxTicks * ioWait

\* ------------------------------------------------------------------------
\* sensemon.main: compensation of the temperature for the heat of the CPU
\* ------------------------------------------------------------------------
tempCompFactor == Get(CONFIG, KWD_TEMP_COMP, DEF_TEMP_COMP_FACTOR)
cpuTempsQMaxLen == Get(CONFIG, KWD_MAX_LEN_CPU_TEMPS, MAX_LEN_CPU_TEMPS)

\* tempCompYN = tempCompFactor != 0
tempCompYN_NotZero == ~FracEq(tempCompFactor, Float(0))

\* tempCompYN = tempCompFactor > 0
tempCompYN == FracGT(tempCompFactor, Float(0))

\* cpuTempsQ = []; if tempCompYN: cpuTempsQ = deque([first] * maxlen, maxlen)
InitialCpuTempsQ(first) ==
    IF tempCompYN THEN [i \in 1..cpuTempsQMaxLen |-> first] ELSE <<>>

\* a full deque drops its newest entry
DequeAppend_DropsNewest(q, x, maxlen) ==
    IF Len(q) >= maxlen
    THEN Append(SubSeq(q, 1, Len(q) - 1), x)
    ELSE Append(q, x)

\* deque.append of a deque with maxlen: a full deque drops its oldest entry
DequeAppend(q, x, maxlen) ==
    IF Len(q) >= maxlen THEN Tail(Append(q, x)) ELSE Append(q, x)

\* cpuTempAvg = sum(cpuTempsQ) / float(cpuTempsQMaxLen)
CpuTempAvg(q) == FracDiv(Sum(q), Float(cpuTempsQMaxLen))

\* the average is taken before the reading of the tick is appended
AverageOfTick_BeforeAppend(q, x) == CpuTempAvg(q)

\* cpuTempsQ.append(...) and then cpuTempAvg = sum(cpuTempsQ) / ...: the
\* average of a tick is taken over the window that holds the tick's reading
AverageOfTick(q, x) == CpuTempAvg(DequeAppend(q, x, cpuTempsQMaxLen))

\* tempComp = tempRaw - ((cpuTempAvg - tempRaw) * tempCompFactor)
Compensated_Multiplies(raw, avg) ==
    FracSub(raw, FracDiv(FracSub(avg, raw), FracDiv(Float(1), tempCompFactor)))

\* the damping factor grows with the number of uploads
Compensated_CountsUploads(raw, avg) ==
    FracSub(raw, FracDiv(FracSub(avg, raw), FracAdd(tempCompFactor, Float(numUploads))))

\* tempComp = tempRaw - ((cpuTempAvg - tempRaw) / tempCompFactor)
Compensated(raw, avg) == FracSub(raw, FracDiv(FracSub(avg, raw), tempCompFactor))

\* if ioWait > APP_MIN_PROG_WAIT: the wait is shown with a progress bar
WithProgressBar == ioWait > APP_MIN_PROG_WAIT

\* the time the wait of a tick takes: for i in range(ioWait):
\* time.sleep(APP_WAIT_1SEC), or time.sleep(ioWait)
SleepOfTick == IF WithProgressBar THEN ioWait * APP_WAIT_1SEC ELSE ioWait

\* SENSE_HAT.display_progress(timeSinceUpdate / uploadDelay), in the first
\* round of the for statement, raises ZeroDivisionError
ProgressBarRaises == WithProgressBar /\ uploadDelay = 0

\* uploadDelay = ioFreq
InitialUploadDelay_Freq == ioFreq

\* uploadDelay = ioDelay  # Ensure that we do NOT upload first reading
InitialUploadDelay == ioDelay

\* if timeSinceUpdate >= 0
UploadDue_EveryTick == timeSinceUpdate >= 0

\* if timeSinceUpdate >= uploadDelay
UploadDue == timeSinceUpdate >= uploadDelay

\* Variants of the clauses below, each with one slip (for mutation testing
\* of the properties).
\*
\* the ThrottlingError clause subtracts the penalty
UploadDelayAfter_Subtracts(o, delay) ==
    CASE o = "RateLimited" -> delay - ioThrottle
      [] o = "Success" -> ioFreq
      [] OTHER -> delay

\* the ThrottlingError clause stops adding at two penalties
UploadDelayAfter_Capped(o, delay) ==
    CASE o = "RateLimited" ->
            IF delay + ioThrottle > ioFreq + 2 * ioThrottle
            THEN delay ELSE delay + ioThrottle
      [] o = "Success" -> ioFreq
      [] OTHER -> delay

\* the else clause does not reset the delay
UploadDelayAfter_NoReset(o, delay) ==
    CASE o = "RateLimited" -> delay + ioThrottle
      [] OTHER -> delay

\* numUploads += 1 in the finally clause
NumUploadsAfter_InFinally(o, n) == n + 1

\* exitNow = numUploads >= maxUploads
UploadsDone_NoPositiveTest(n) == n >= maxUploads

\* numUploads > maxUploads
UploadsDone_OffByOne(n) == (maxUploads > 0) /\ (n > maxUploads)

\* a ThrottlingError ends the loop
ExitNowAfter_StopsOnThrottling(o, exit, n) ==
    IF o \in {"Interrupt", "RateLimited"}
    THEN TRUE
    ELSE (maxUploads > 0) /\ (n >= maxUploads)

\* timeUpdate = timeCurrent in the else clause
TimeUpdateAfter_OnSuccessOnly(o) == IF o = "Success" THEN timeCurrent ELSE timeUpdate

\* except RequestError without sys.exit(1)
PcAfter_NoExit(o) == IF o = "Interrupt" THEN "end" ELSE "record"

\* the try statement of the attempt catches KeyboardInterrupt and goes on
PcAfter_InterruptSwallowed(o) == IF o = "Fatal" THEN "exited" ELSE "record"

\* The try statement of the upload attempt (try / except RequestError /
\* except ThrottlingError / else / finally), clause by clause.
\*
\* except ThrottlingError: uploadDelay += ioThrottle
\* else: uploadDelay = ioFreq
UploadDelayAfter(o, delay) ==
    CASE o = "RateLimited" -> delay + ioThrottle
      [] o = "Success" -> ioFreq
      [] OTHER -> delay

\* else: numUploads += 1
NumUploadsAfter(o, n) == IF o = "Success" THEN n + 1 ELSE n

\* finally: exitNow = (maxUploads > 0) and (numUploads >= maxUploads)
UploadsDone(n) == (maxUploads > 0) /\ (n >= maxUploads)

\* else: exitNow = exitNow or ioUploadAndExit
\* finally: exitNow = ...           (overwrites what the else clause set)
\* except KeyboardInterrupt: exitNow = True
ExitNowAfter(o, exit, n) ==
    LET afterElse == IF o = "Success" THEN exit \/ ioUploadAndExit ELSE exit
        afterFinally == UploadsDone(n)
    IN  IF o = "Interrupt" THEN TRUE ELSE afterFinally

\* finally: timeUpdate = timeCurrent
TimeUpdateAfter(o) == timeCurrent

\* where the main thread goes on: the statements after the try statement,
\* sys.exit(1) of except RequestError, or the handler of KeyboardInterrupt
PcAfter(o) ==
    CASE o = "Fatal" -> "exited"
      [] o = "Interrupt" -> "end"
      [] OTHER -> "record"

\* the try statement is entered: one more upload attempt is in flight
AttemptsAfterStart(n) == n + 1

\* asyncio.run(...) (time.sleep(10) in sensemon.main) gives control back to
\* the main thread when the call has run to its end, or raised: the attempt
\* is in flight no more when a clause of the try statement runs
AttemptsAfterCall_Detached(n) == n
AttemptsAfterCall(n) == n - 1

\* except RequestError: the error is logged and the loop is entered
PcAfterFeeds_NoExit(raised) == "loop"

\* the try statement of the feed look-ups: on to the main loop, or
\* except RequestError: ... sys.exit(1)
PcAfterFeeds(raised) == IF raised = "ok" THEN "loop" ELSE "exited"

\* ------------------------------------------------------------------------
\* pired.py, enviromon.py: settings and helpers of the main loop
\* ------------------------------------------------------------------------
PiredConfigs ==
    { [k \in {KWD_DELAY, KWD_WAIT, KWD_THROTTLE, KWD_SLEEP} |->
          CASE k = KWD_DELAY -> 3 [] k = KWD_WAIT -> 1 [] k = KWD_THROTTLE -> 2
            [] k = KWD_SLEEP -> 3],
      [k \in {KWD_DELAY, KWD_WAIT, KWD_THROTTLE, KWD_SLEEP} |->
          CASE k = KWD_DELAY -> 1 [] k = KWD_WAIT -> 1 [] k = KWD_THROTTLE -> 0
            [] k = KWD_SLEEP -> 2],
      [k \in {KWD_DELAY, KWD_WAIT, KWD_THROTTLE, KWD_SLEEP} |->
          CASE k = KWD_DELAY -> 2 [] k = KWD_WAIT -> 2 [] k = KWD_THROTTLE -> 1
            [] k = KWD_SLEEP -> 0],
      [k \in {KWD_DELAY, KWD_WAIT, KWD_THROTTLE, KWD_SLEEP, KWD_DISPLAY} |->
          CASE k = KWD_DELAY -> 5 [] k = KWD_WAIT -> 1 [] k = KWD_THROTTLE -> 0
            [] k = KWD_SLEEP -> 3 [] k = KWD_DISPLAY -> -1],
      [k \in {KWD_DELAY, KWD_WAIT, KWD_THROTTLE, KWD_SLEEP} |->
          CASE k = KWD_DELAY -> 5 [] k = KWD_WAIT -> 1 [] k = KWD_THROTTLE -> 0
            [] k = KWD_SLEEP -> -1] }

\* piRED.displMode = get_setting(config, const.KWD_DISPLAY, const.DISPL_SPARKLE)
InitialDisplMode == Get(CONFIG, KWD_DISPLAY, DISPL_SPARKLE)

\* piRED.displSleep = get_setting(config, const.KWD_SLEEP, ...)
displSleep == CONFIG[KWD_SLEEP]

\* the joystick: directions and actions of an event
Directions == {"up", "down", "left", "right", "middle"}
ACTION_PRESSED == "pressed"
ACTION_HELD == "held"
ACTION_RELEASED == "released"
Actions == {ACTION_PRESSED, ACTION_HELD, ACTION_RELEASED}

\* _pushed_up, _pushed_down: the rotation of the display
RotationAfter(dir, rot) ==
    CASE dir = "up" -> IF rot <= 0 THEN 270 ELSE rot - ROTATE_90
      [] dir = "down" -> IF rot >= 270 THEN 0 ELSE rot + ROTATE_90
      [] OTHER -> rot

\* _pushed_left, _pushed_right without the wrap-around
ModeAfter_NoWrap(dir, mode) ==
    CASE dir = "left" -> mode - 1
      [] dir = "right" -> mode + 1
      [] dir = "middle" -> DISPL_BLANK
      [] OTHER -> mode

\* _pushed_left, _pushed_right, _pushed_middle: the display mode
ModeAfter(dir, mode) ==
    CASE dir = "left" -> IF mode <= 1 THEN 4 ELSE mode - 1
      [] dir = "right" -> IF mode >= 4 THEN 1 ELSE mode + 1
      [] dir = "middle" -> DISPL_BLANK
      [] OTHER -> mode

\* the value a handler assigns to sleepCounter
SleepCounterAfter(dir) == IF dir = "middle" THEN 1 ELSE displSleep

\* the call the main loop makes for a display mode when sleepCounter > 1:
\* update_LED with the queue of the mode, sparkle_LED, else blank_LED
DrawnFor(mode) ==
    CASE mode = DISPL_TEMP -> "temp"
      [] mode = DISPL_PRESS -> "press"
      [] mode = DISPL_HUMID -> "humid"
      [] mode = DISPL_SPARKLE -> "sparkle"
      [] OTHER -> "blank"

\* what a tick writes to the LED: blank_LED once when sleepCounter == 1,
\* the display of the mode when sleepCounter > 1, nothing otherwise
LedOfTick(counter, mode) ==
    IF counter = 1 THEN "blank"
    ELSE IF counter > 1 THEN DrawnFor(mode)
    ELSE "none"

\* piRED.sleepCounter -= 1 stores the value it loaded, less one
SleepCounterStored(old) == old - 1

SendResults == {"ok", "RequestError", "ThrottlingError"}
NoSends == <<>>

\* ------------------------------------------------------------------------
\* Start-up: the feed look-ups
\* ------------------------------------------------------------------------
FeedResults == {"ok", "RequestError"}
NoFeeds == <<>>

\* sensemon: FEED_TEMPS, FEED_PRESS, FEED_HUMID; pired.py: tempsFeed,
\* pressFeed, humidFeed, onOffFeed; enviromon.py: tempsFeed, pressFeed,
\* humidFeed
NumFeeds == IF prog = "pired" THEN 4 ELSE 3

\* UPLOADER.aio_feed_info / Device.get_feed_info: a RequestError is logged
\* and raised again
FeedInfo(result) == result

\* pired.py reads a copy of the flag, bound before the handler ran
LoopFlag_ImportedCopy == importedExitNow

\* while not EXIT_NOW: pired.py reads its own global; enviromon.py reads the
\* name its "from common import exit_now, EXIT_NOW" bound
LoopFlag == IF prog = "enviromon" THEN importedExitNow ELSE EXIT_NOW

\* if delayCounter + 1 < maxDelay (else: upload)
SendDue_OneEarly == ~(delayCounter + 1 < maxDelay)

\* if delayCounter <= maxDelay (else: upload)
SendDue_AfterMaxDelay == ~(delayCounter <= maxDelay)

\* if delayCounter < maxDelay (else: upload)
SendDue == ~(delayCounter < maxDelay)

\* Device.send_sensor_data: a RequestError or ThrottlingError of
\* aio.send_data is logged and raised again
SendSensorData(result) == result

RECURSIVE FirstRaised(_)
FirstRaised(rs) ==
    IF rs = <<>> THEN "ok"
    ELSE IF Head(rs) # "ok" THEN Head(rs) ELSE FirstRaised(Tail(rs))

\* send_all_sensor_data: asyncio.gather of the three sends.  A send has no
\* await in it, so the three tasks run to their end one after the other, in
\* the order given; gather raises the exception of the first task that
\* ended with one, the others' exceptions are dropped.
SendAllSensorData(rs) ==
    FirstRaised([i \in 1..Len(rs) |-> SendSensorData(rs[i])])

\* except ThrottlingError: maxDelay -= ioThrottle
PiredOnThrottling_Shrinks(d) == d - ioThrottle

\* except ThrottlingError: maxDelay = ioThrottle
PiredOnThrottling_Replaces(d) == ioThrottle

\* except ThrottlingError: maxDelay += ioThrottle
PiredOnThrottling(d) == d + ioThrottle

\* else: maxDelay = ioDelay
PiredOnSuccess == ioDelay

\* ------------------------------------------------------------------------
\* Initial state: the program started, up to its main loop
\* ------------------------------------------------------------------------
InitSensemon ==
    /\ prog = "sensemon"
    /\ \/ /\ CONFIG \in Configs
          /\ cliArgs \in [uploads : Uploads, cron : BOOLEAN]
       \/ /\ CONFIG \in CompConfigs
          /\ cliArgs = [uploads |-> DEF_UPLOADS, cron |-> FALSE]
    /\ \E first \in CpuTemps : cpuTempsQ = InitialCpuTempsQ(Float(first))
    /\ cpuSampled = tempCompYN
    /\ uploadDelay = InitialUploadDelay
    /\ delayCounter = 0 /\ maxDelay = 0

InitPired ==
    /\ prog \in {"pired", "enviromon"}
    /\ CONFIG \in PiredConfigs
    /\ cliArgs = [uploads |-> DEF_UPLOADS, cron |-> FALSE]
    /\ uploadDelay = 0
    /\ cpuTempsQ = <<>>
    /\ cpuSampled = FALSE
    \* delayCounter = maxDelay = ioDelay  # Ensure that we upload first reading
    /\ delayCounter = ioDelay /\ maxDelay = ioDelay

Init ==
    /\ InitSensemon \/ InitPired
    /\ pc = "start"
    /\ now = 0
    /\ exitStatus = NoStatus
    /\ timeSinceUpdate = 0
    /\ timeUpdate = 0
    /\ timeCurrent = 0
    /\ numUploads = 0
    /\ exitNow = FALSE
    /\ tempRaw = Float(0) /\ tempComp = Float(0) /\ pressRaw = 0 /\ humidRaw = 0
    /\ handed = NoCall
    /\ outcome = NoOutcome
    /\ delayBefore = 0
    /\ throttleRun = 0
    /\ interrupted = FALSE
    /\ EXIT_NOW = FALSE
    /\ importedExitNow = FALSE
    /\ reading = <<0, 0, 0>>
    /\ sends = NoSends
    /\ inFlight = 0
    /\ recorded = FALSE
    /\ cleanedUp = FALSE
    /\ cpuTempAvg = Float(0)
    /\ feeds = NoFeeds
    \* Device.__init__, and the settings of the display as configured
    /\ sleepCounter = 0
    /\ displMode = IF prog = "sensemon" THEN DISPL_BLANK ELSE InitialDisplMode
    /\ displRotation = 0
    /\ loaded = 0
    /\ stickPc = "idle"
    /\ presses = 0
    /\ lastAttempt = -1
    /\ led = "none"

\* ------------------------------------------------------------------------
\* sensemon: module initialisation
\* ------------------------------------------------------------------------
\* Verify that feeds exist: the look-ups run one after the other, the first
\* RequestError ends the try statement
VerifyFeeds ==
    /\ prog = "sensemon" /\ pc = "start"
    /\ \E rs \in [1..NumFeeds -> FeedResults] :
          /\ feeds' = rs
          /\ pc' = PcAfterFeeds(FirstRaised([i \in 1..NumFeeds |-> FeedInfo(rs[i])]))
    /\ exitStatus' = IF pc' = "exited" THEN <<1>> ELSE exitStatus
    /\ UNCHANGED <<led, lastAttempt, displVars, cpuTempAvg, cpuSampled, cpuTempsQ, cleanedUp, recorded, inFlight, now,
                   setupVars, schedVars, sampleVars, obsVars, piredVars>>

\* ------------------------------------------------------------------------
\* sensemon.main: the main loop
\* ------------------------------------------------------------------------
\* while not exitNow: timeCurrent = time.time(); timeSinceUpdate = ...
LoopTest ==
    /\ prog = "sensemon" /\ pc = "loop"
    /\ IF exitNow
       THEN /\ pc' = "end"
            /\ UNCHANGED <<timeCurrent, timeSinceUpdate, handed, outcome, delayBefore,
                           recorded>>
       ELSE /\ now <= Horizon
            /\ timeCurrent' = now
            /\ timeSinceUpdate' = now - timeUpdate
            \* a new tick begins
            /\ handed' = NoCall
            /\ outcome' = NoOutcome
            /\ delayBefore' = 0
            /\ recorded' = FALSE
            /\ pc' = "read"
    /\ UNCHANGED <<led, lastAttempt, displVars, feeds, cpuTempAvg, cpuSampled, cpuTempsQ, cleanedUp, inFlight, now, exitStatus, setupVars, timeUpdate, uploadDelay, numUploads,
                   exitNow, sampleVars, throttleRun, interrupted, piredVars>>

\* Get sensor data
ReadSensors ==
    /\ prog = "sensemon" /\ pc = "read"
    /\ \E r \in Readings, cpu \in CpuTemps :
          \* tempRaw = tempComp = SENSE_HAT.get_temperature()
          /\ tempRaw' = Float(r[1])
          /\ IF tempCompYN
             THEN \* cpuTempsQ.append(SENSE_HAT.get_CPU_temp(False))
                  \E q \in {DequeAppend(cpuTempsQ, Float(cpu), cpuTempsQMaxLen)} :
                  \E avg \in {AverageOfTick(cpuTempsQ, Float(cpu))} :
                      /\ cpuSampled' = TRUE
                      /\ cpuTempsQ' = q
                      /\ cpuTempAvg' = avg
                      /\ tempComp' = Compensated(Float(r[1]), avg)
             ELSE /\ tempComp' = Float(r[1])
                  /\ UNCHANGED <<cpuTempsQ, cpuSampled, cpuTempAvg>>
          /\ pressRaw' = r[2]
          /\ humidRaw' = r[3]
    /\ pc' = "decide"
    /\ UNCHANGED <<led, lastAttempt, displVars, feeds, cleanedUp, recorded, inFlight, now, exitStatus, setupVars, schedVars, obsVars, piredVars>>

\* Is it time to upload data?
Decide ==
    /\ prog = "sensemon" /\ pc = "decide"
    /\ pc' = IF UploadDue THEN "upload" ELSE "record"
    /\ inFlight' = IF UploadDue THEN AttemptsAfterStart(inFlight) ELSE inFlight
    /\ UNCHANGED <<led, lastAttempt, displVars, feeds, cpuTempAvg, cpuSampled, cpuTempsQ, cleanedUp, recorded, now, exitStatus, setupVars, schedVars, sampleVars, obsVars, piredVars>>

\* The try statement of the upload attempt.  Its body is time.sleep(10), in
\* the place of the commented-out asyncio.run(upload_sensor_data(...)): no
\* value is handed to upload_sensor_data.  The body ends in one of the
\* outcomes the clauses of the statement tell apart.
Upload(o) ==
    /\ prog = "sensemon" /\ pc = "upload"
    /\ outcome' = o
    /\ delayBefore' = uploadDelay
    /\ handed' = handed
    /\ now' = IF o = "Interrupt" THEN now ELSE now + UPLOAD_SLEEP
    /\ uploadDelay' = UploadDelayAfter(o, uploadDelay)
    /\ numUploads' = NumUploadsAfter(o, numUploads)
    /\ timeUpdate' = TimeUpdateAfter(o)
    /\ exitNow' = ExitNowAfter(o, exitNow, numUploads')
    /\ throttleRun' = CASE o = "RateLimited" -> throttleRun + 1
                        [] o = "Success" -> 0
                        [] OTHER -> throttleRun
    /\ interrupted' = (o = "Interrupt")
    /\ exitStatus' = IF o = "Fatal" THEN <<1>> ELSE exitStatus
    /\ pc' = PcAfter(o)
    /\ inFlight' = AttemptsAfterCall(inFlight)
    /\ UNCHANGED <<led, lastAttempt, displVars, feeds, cpuTempAvg, cpuSampled, cpuTempsQ, cleanedUp, recorded, timeCurrent, timeSinceUpdate, setupVars, sampleVars, piredVars>>

UploadAttempt == \E o \in Outcomes : Upload(o)

\* Update data set and display: senseData.temperature.data.append(tempComp),
\* senseData.pressure.data.append(pressRaw),
\* senseData.humidity.data.append(humidRaw)
Record ==
    /\ prog = "sensemon" /\ pc = "record"
    /\ recorded' = TRUE
    /\ pc' = IF exitNow THEN "loop" ELSE "wait"
    /\ UNCHANGED <<led, lastAttempt, displVars, feeds, cpuTempAvg, cpuSampled, cpuTempsQ, cleanedUp, inFlight, now, exitStatus, setupVars, schedVars, sampleVars, obsVars, piredVars>>

\* the wait before the sensors are read again.  A ZeroDivisionError of the
\* progress bar is caught nowhere: the process ends with a traceback.
Wait ==
    /\ prog = "sensemon" /\ pc = "wait"
    /\ IF ProgressBarRaises
       THEN /\ pc' = "exited"
            /\ exitStatus' = <<1>>
            /\ UNCHANGED now
       ELSE /\ now' = now + SleepOfTick
            /\ pc' = "loop"
            /\ UNCHANGED exitStatus
    /\ UNCHANGED <<led, lastAttempt, displVars, feeds, cpuTempAvg, cpuSampled, cpuTempsQ, cleanedUp, recorded, inFlight, setupVars, schedVars, sampleVars, obsVars, piredVars>>

\* except KeyboardInterrupt: exitNow = True
KeyboardInterrupt ==
    /\ prog = "sensemon" /\ pc \in {"loop", "read", "decide", "record", "wait"}
    /\ exitNow' = TRUE
    /\ interrupted' = TRUE
    /\ pc' = "end"
    /\ UNCHANGED <<led, lastAttempt, displVars, feeds, cpuTempAvg, cpuSampled, cpuTempsQ, cleanedUp, recorded, inFlight, now, exitStatus, setupVars, timeUpdate, timeCurrent, timeSinceUpdate,
                   uploadDelay, numUploads, sampleVars, handed, outcome, delayBefore,
                   throttleRun, piredVars>>

\* clean-up after the loop (SENSE_HAT.display_reset(), display_off());
\* main returns
End ==
    /\ prog = "sensemon" /\ pc = "end"
    /\ cleanedUp' = TRUE
    /\ pc' = "exited"
    /\ exitStatus' = <<0>>
    /\ UNCHANGED <<led, lastAttempt, displVars, feeds, cpuTempAvg, cpuSampled, cpuTempsQ, recorded, inFlight, now, setupVars, schedVars, sampleVars, obsVars, piredVars>>

\* ------------------------------------------------------------------------
\* pired.py, enviromon.py: start-up and the main loop
\* ------------------------------------------------------------------------
IsPired == prog \in {"pired", "enviromon"}

\* the feed look-ups; except RequestError: log, piRED.reset_LED(), sys.exit(1)
PiredGetFeeds ==
    /\ IsPired /\ pc = "start"
    /\ \E rs \in [1..NumFeeds -> FeedResults] :
          /\ feeds' = rs
          /\ pc' = PcAfterFeeds(FirstRaised([i \in 1..NumFeeds |-> FeedInfo(rs[i])]))
    /\ exitStatus' = IF pc' = "exited" THEN <<1>> ELSE exitStatus
    /\ cleanedUp' = (pc' = "exited")
    \* piRED.sleepCounter = piRED.displSleep  # Reset counter for screen blanking
    /\ sleepCounter' = IF pc' = "loop" THEN displSleep ELSE sleepCounter
    /\ UNCHANGED <<led, lastAttempt, displMode, displRotation, loaded, stickPc, presses>>
    /\ UNCHANGED <<cpuTempAvg, cpuSampled, cpuTempsQ, recorded, inFlight, now,
                   setupVars, senseVars, piredVars>>

\* while not EXIT_NOW
PiredLoopTest ==
    /\ IsPired /\ pc = "loop"
    /\ IF LoopFlag
       THEN pc' = "end"
       ELSE /\ now <= Horizon
            /\ pc' = "read"
    /\ UNCHANGED <<led, lastAttempt, displVars, feeds, cpuTempAvg, cpuSampled, cpuTempsQ, cleanedUp, recorded, inFlight, now, exitStatus, setupVars, senseVars, piredVars>>

\* get_sensor_data, the queues
PiredRead ==
    /\ IsPired /\ pc = "read"
    /\ reading' \in Readings
    /\ pc' = "display"
    /\ UNCHANGED <<led, lastAttempt, displVars, feeds, cpuTempAvg, cpuSampled, cpuTempsQ, cleanedUp, recorded, inFlight, now, exitStatus, setupVars, senseVars, EXIT_NOW, importedExitNow,
                   delayCounter, maxDelay, sends>>

\* Check 'sleepCounter' before we display anything: the LED is blanked,
\* drawn or left alone
PiredDisplay ==
    /\ IsPired /\ pc = "display"
    /\ led' = LedOfTick(sleepCounter, displMode)
    /\ pc' = "sleep"
    /\ UNCHANGED <<lastAttempt, displVars, feeds, cpuTempAvg, cpuSampled, cpuTempsQ, cleanedUp, recorded, inFlight, now, exitStatus, setupVars, senseVars, piredVars>>

\* if piRED.sleepCounter > 0: piRED.sleepCounter -= 1, up to the load of
\* the attribute
PiredSleepLoad ==
    /\ IsPired /\ pc = "sleep"
    /\ led' = "none"
    /\ IF sleepCounter > 0
       THEN /\ loaded' = sleepCounter
            /\ pc' = "sleepstore"
       ELSE /\ pc' = "decide"
            /\ UNCHANGED loaded
    /\ UNCHANGED <<lastAttempt, sleepCounter, displMode, displRotation, stickPc, presses>>
    /\ UNCHANGED <<feeds, cpuTempAvg, cpuSampled, cpuTempsQ, cleanedUp, recorded, inFlight, now, exitStatus, setupVars, senseVars, piredVars>>

\* piRED.sleepCounter -= 1: the store of the attribute
PiredSleepStore ==
    /\ IsPired /\ pc = "sleepstore"
    /\ sleepCounter' = SleepCounterStored(loaded)
    /\ loaded' = 0
    /\ pc' = "decide"
    /\ UNCHANGED <<led, lastAttempt, displMode, displRotation, stickPc, presses>>
    /\ UNCHANGED <<feeds, cpuTempAvg, cpuSampled, cpuTempsQ, cleanedUp, recorded, inFlight, now, exitStatus, setupVars, senseVars, piredVars>>

\* Is it time to upload data?
PiredDecide ==
    /\ IsPired /\ pc = "decide"
    /\ IF SendDue
       THEN /\ pc' = "upload"
            /\ inFlight' = AttemptsAfterStart(inFlight)
            /\ UNCHANGED delayCounter
       ELSE /\ delayCounter' = delayCounter + 1
            /\ pc' = "wait"
            /\ UNCHANGED inFlight
    /\ UNCHANGED <<led, lastAttempt, displVars, feeds, cpuTempAvg, cpuSampled, cpuTempsQ, cleanedUp, recorded, now, exitStatus, setupVars, senseVars, EXIT_NOW, importedExitNow,
                   maxDelay, reading, sends>>

\* try: asyncio.run(send_all_sensor_data(...)) except ... finally
PiredUpload(rs) ==
    /\ IsPired /\ pc = "upload"
    /\ sends' = rs
    /\ outcome' = CASE SendAllSensorData(rs) = "ok" -> "Success"
                    [] SendAllSensorData(rs) = "ThrottlingError" -> "RateLimited"
                    [] SendAllSensorData(rs) = "RequestError" -> "Fatal"
    /\ handed' = reading
    /\ lastAttempt' = now
    /\ delayCounter' = 1
    /\ inFlight' = AttemptsAfterCall(inFlight)
    /\ CASE outcome' = "Success" ->
              /\ maxDelay' = PiredOnSuccess
              /\ throttleRun' = 0
              /\ pc' = "wait"
              /\ UNCHANGED exitStatus
         [] outcome' = "RateLimited" ->
              /\ maxDelay' = PiredOnThrottling(maxDelay)
              /\ throttleRun' = throttleRun + 1
              /\ pc' = "wait"
              /\ UNCHANGED exitStatus
         [] outcome' = "Fatal" ->
              \* raise: nothing catches it, the process ends with a traceback
              /\ exitStatus' = <<1>>
              /\ pc' = "exited"
              /\ UNCHANGED <<maxDelay, throttleRun>>
    /\ UNCHANGED <<led, displVars, feeds, cpuTempAvg, cpuSampled, cpuTempsQ, cleanedUp, recorded, now, setupVars, schedVars, sampleVars, delayBefore, interrupted,
                   EXIT_NOW, importedExitNow, reading>>

PiredUploadAttempt == \E rs \in [1..3 -> SendResults] : PiredUpload(rs)

\* time.sleep(ioWait)
PiredWait ==
    /\ IsPired /\ pc = "wait"
    /\ now' = now + Get(CONFIG, KWD_WAIT, DEF_WAIT)
    /\ pc' = "loop"
    \* the tick ends
    /\ sends' = NoSends
    /\ handed' = NoCall
    /\ outcome' = NoOutcome
    /\ UNCHANGED <<led, lastAttempt, displVars, feeds, cpuTempAvg, cpuSampled, cpuTempsQ, cleanedUp, recorded, inFlight, exitStatus, setupVars, schedVars, sampleVars, delayBefore, throttleRun,
                   interrupted, EXIT_NOW, importedExitNow, delayCounter, maxDelay, reading>>

\* exit_now: the handler of SIGINT and SIGTERM
Signal ==
    /\ IsPired /\ pc # "exited" /\ ~EXIT_NOW
    /\ EXIT_NOW' = TRUE
    /\ UNCHANGED <<led, lastAttempt, displVars, feeds, cpuTempAvg, cpuSampled, cpuTempsQ, cleanedUp, recorded, inFlight, pc, now, exitStatus, setupVars, senseVars, importedExitNow,
                   delayCounter, maxDelay, reading, sends>>

\* clean-up after the loop: the END log line, piRED.reset_LED()
PiredEnd ==
    /\ IsPired /\ pc = "end"
    /\ cleanedUp' = TRUE
    /\ pc' = "exited"
    /\ exitStatus' = <<0>>
    /\ UNCHANGED <<led, lastAttempt, displVars, feeds, cpuTempAvg, cpuSampled, cpuTempsQ, recorded, inFlight, now, setupVars, senseVars, piredVars>>

\* pired.py: the joystick thread calls the handler of an event; the handler
\* assigns displRotation or displMode first
Pushed(dir, action) ==
    /\ prog = "pired" /\ pc \notin {"start", "end", "exited"}
    /\ stickPc = "idle" /\ presses < MaxPresses
    /\ presses' = presses + 1
    /\ IF action # ACTION_RELEASED
       THEN /\ displRotation' = RotationAfter(dir, displRotation)
            /\ displMode' = ModeAfter(dir, displMode)
            /\ stickPc' = dir
       ELSE UNCHANGED <<displRotation, displMode, stickPc>>
    /\ UNCHANGED <<led, lastAttempt, sleepCounter, loaded>>
    /\ UNCHANGED <<feeds, cpuTempAvg, cpuSampled, cpuTempsQ, cleanedUp, recorded, inFlight, pc, now, exitStatus, setupVars, senseVars, piredVars>>

JoystickEvent == \E dir \in Directions, action \in Actions : Pushed(dir, action)

\* the handler assigns sleepCounter and returns
PushedStore ==
    /\ prog = "pired" /\ stickPc # "idle"
    /\ sleepCounter' = SleepCounterAfter(stickPc)
    /\ stickPc' = "idle"
    /\ UNCHANGED <<led, lastAttempt, displMode, displRotation, loaded, presses>>
    /\ UNCHANGED <<feeds, cpuTempAvg, cpuSampled, cpuTempsQ, cleanedUp, recorded, inFlight, pc, now, exitStatus, setupVars, senseVars, piredVars>>

Next ==
    \/ VerifyFeeds
    \/ PiredGetFeeds
    \/ LoopTest
    \/ ReadSensors
    \/ Decide
    \/ UploadAttempt
    \/ Record
    \/ Wait
    \/ KeyboardInterrupt
    \/ End
    \/ PiredLoopTest
    \/ PiredRead
    \/ PiredDisplay
    \/ PiredSleepLoad
    \/ PiredSleepStore
    \/ PiredDecide
    \/ PiredUploadAttempt
    \/ PiredWait
    \/ Signal
    \/ PiredEnd

Spec == Init /\ [][Next]_vars

\* ------------------------------------------------------------------------
\* A run of sensemon alone, its main thread always going on
\* ------------------------------------------------------------------------
SensemonStep ==
    \/ VerifyFeeds
    \/ LoopTest
    \/ ReadSensors
    \/ Decide
    \/ UploadAttempt
    \/ Record
    \/ Wait
    \/ End

SensemonNext ==
    \/ SensemonStep
    \/ KeyboardInterrupt

SensemonInit == Init /\ prog = "sensemon"

FairSpec ==
    /\ SensemonInit
    /\ [][SensemonNext]_vars
    /\ WF_vars(SensemonStep)

\* ------------------------------------------------------------------------
\* A run of pired.py or enviromon.py, its main thread always going on; the
\* signal may arrive at any time, or never
\* ------------------------------------------------------------------------
PiredStep ==
    \/ PiredGetFeeds
    \/ PiredLoopTest
    \/ PiredRead
    \/ PiredDisplay
    \/ PiredSleepLoad
    \/ PiredSleepStore
    \/ PiredDecide
    \/ PiredUploadAttempt
    \/ PiredWait
    \/ PiredEnd

PiredNext ==
    \/ PiredStep
    \/ Signal

PiredFairInit == Init /\ IsPired

PiredFairSpec ==
    /\ PiredFairInit
    /\ [][PiredNext]_vars
    /\ WF_vars(PiredStep)

\* ------------------------------------------------------------------------
\* A run of pired.py with the joystick: the joystick thread runs the handlers
\* while the main thread runs the loop; no signal is delivered, the run is
\* followed while the loop goes on
\* ------------------------------------------------------------------------
JoystickNext ==
    \/ PiredGetFeeds
    \/ PiredLoopTest
    \/ PiredRead
    \/ PiredDisplay
    \/ PiredSleepLoad
    \/ PiredSleepStore
    \/ PiredDecide
    \/ PiredUploadAttempt
    \/ PiredWait
    \/ JoystickEvent
    \/ PushedStore

JoystickInit == Init /\ prog = "pired" /\ displSleep = 3

JoystickSpec == JoystickInit /\ [][JoystickNext]_vars

\* ------------------------------------------------------------------------
\* Properties
\* ------------------------------------------------------------------------
IsSensemon == prog = "sensemon"

\* an upload attempt of sensemon.main ends with outcome o in this step
Ends(o) == IsSensemon /\ pc = "upload" /\ pc' # "upload" /\ outcome' = o

\* a feed look-up at start-up raised RequestError
StartupFailed == feeds # NoFeeds /\ FirstRaised(feeds) # "ok"

\* the progress bar of the wait raised ZeroDivisionError
ProgressBarCrashed ==
    /\ IsSensemon /\ pc = "exited" /\ exitStatus = <<1>>
    /\ outcome # "Fatal" /\ ~StartupFailed

\* the loop of sensemon.main has stopped or is about to
Stopped == exitNow \/ pc \in {"end", "exited"}

\* C1 (as claimed): in sensemon.main, from loop entry onward,
\* uploadDelay >= ioFreq whenever THROTTLE >= 0.
C1_Claim == (IsSensemon /\ ioThrottle >= 0) => uploadDelay >= ioFreq

\* C1 (amended): with THROTTLE >= 0, uploadDelay >= ioDelay until the first
\* successful upload and uploadDelay >= ioFreq from the first successful
\* upload onward.
C1_Amended ==
    (IsSensemon /\ ioThrottle >= 0) =>
        uploadDelay >= (IF numUploads = 0 THEN ioDelay ELSE ioFreq)

C1_Witness ==
    /\ IsSensemon /\ ioThrottle > 0 /\ ioDelay < ioFreq
    /\ numUploads >= 1 /\ throttleRun >= 1 /\ uploadDelay > ioFreq

\* C2: each ThrottlingError adds exactly ioThrottle to uploadDelay, without
\* a cap: after k ThrottlingErrors in a row the delay is the delay the run
\* began with plus k * ioThrottle; uploadDelay changes in no other way than
\* by that and by the reset to ioFreq on success.
C2_BackoffExact ==
    /\ [](IsSensemon =>
            uploadDelay = (IF numUploads = 0 THEN ioDelay ELSE ioFreq)
                              + throttleRun * ioThrottle)
    /\ [][IsSensemon =>
            /\ Ends("RateLimited") => uploadDelay' = uploadDelay + ioThrottle
            /\ uploadDelay' # uploadDelay =>
                  \/ Ends("RateLimited") /\ uploadDelay' = uploadDelay + ioThrottle
                  \/ Ends("Success") /\ uploadDelay' = ioFreq]_vars

C2_Witness ==
    /\ IsSensemon /\ ioFreq = 600 /\ ioThrottle = 120
    /\ numUploads >= 1 /\ throttleRun = 3 /\ uploadDelay = 960

\* C3: a successful upload adds exactly 1 to numUploads and sets uploadDelay
\* to ioFreq, whatever uploadDelay was.
C3_SuccessResets ==
    [][Ends("Success") =>
          /\ numUploads' = numUploads + 1
          /\ uploadDelay' = ioFreq]_vars

C3_Witness ==
    /\ IsSensemon /\ pc = "record" /\ outcome = "Success"
    /\ delayBefore > ioFreq /\ uploadDelay = ioFreq /\ numUploads = 2

\* C4: numUploads changes only when an upload attempt succeeds; an attempt
\* that ends with ThrottlingError or RequestError leaves it as it was.
C4_CountOnlySuccess ==
    [][IsSensemon =>
          /\ (Ends("RateLimited") \/ Ends("Fatal")) => numUploads' = numUploads
          /\ numUploads' # numUploads => Ends("Success")]_vars

C4_Witness ==
    /\ IsSensemon /\ pc = "exited" /\ outcome = "Fatal"
    /\ throttleRun >= 1 /\ numUploads = 1

\* C5: with maxUploads = N > 0, no --cron, no KeyboardInterrupt, no
\* RequestError and no other uncaught exception, the loop is stopped exactly
\* when numUploads = N, and numUploads never exceeds N.
C5_StopsAtMaxUploads ==
    (IsSensemon /\ maxUploads > 0 /\ ~ioUploadAndExit) =>
        /\ numUploads <= maxUploads
        /\ (~interrupted /\ outcome # "Fatal" /\ ~StartupFailed
                /\ ~ProgressBarCrashed) =>
              (Stopped <=> numUploads = maxUploads)

C5_Witness ==
    /\ IsSensemon /\ maxUploads = 3 /\ ~ioUploadAndExit /\ ~interrupted
    /\ numUploads = 3 /\ pc = "exited" /\ exitStatus = <<0>>

\* C6 (as claimed): in a tick with timeSinceUpdate >= uploadDelay the values
\* sampled in the tick are handed to upload_sensor_data, and there is no
\* upload attempt in a tick with timeSinceUpdate < uploadDelay.
C6_Claim ==
    IsSensemon =>
        /\ outcome \in {"Success", "RateLimited", "Fatal"}
              => handed = <<tempComp, pressRaw, humidRaw>>
        /\ pc = "upload" => timeSinceUpdate >= uploadDelay
        /\ outcome # NoOutcome => timeSinceUpdate >= delayBefore

\* C7 (as claimed): when an upload attempt begins, at least uploadDelay
\* seconds have passed since the outcome of the attempt before it was
\* applied (which was UPLOAD_SLEEP after that attempt's tick began).
C7_Claim ==
    (IsSensemon /\ pc = "upload" /\ numUploads + throttleRun > 0) =>
        timeCurrent - (timeUpdate + UPLOAD_SLEEP) >= uploadDelay

\* C7 (amended): when the outcome of an upload attempt has been applied,
\* timeUpdate is the time the tick of the attempt began (timeCurrent), and
\* the next attempt begins no sooner than uploadDelay seconds after the
\* tick of this attempt began.
C7_Amended ==
    IsSensemon =>
        /\ (pc = "record" /\ outcome \in {"Success", "RateLimited"})
              => timeUpdate = timeCurrent
        /\ pc = "upload" => timeCurrent - timeUpdate >= uploadDelay

C7_Witness ==
    /\ IsSensemon /\ pc = "upload" /\ numUploads + throttleRun > 0
    /\ timeCurrent - timeUpdate >= uploadDelay
    /\ timeCurrent - (timeUpdate + UPLOAD_SLEEP) < uploadDelay

\* C8: in each of the three main loops an upload attempt that ends with
\* RequestError ends the process with exit status 1; no step of the
\* program follows.
C8_FatalTerminates ==
    /\ [](outcome = "Fatal" => (pc = "exited" /\ exitStatus = <<1>>))
    /\ [][pc # "exited"]_vars

C8_Witness ==
    /\ prog = "pired" /\ outcome = "Fatal" /\ pc = "exited" /\ exitStatus = <<1>>
    /\ sends = <<"ok", "ok", "RequestError">>

\* C9 (as claimed): in pired.py and enviromon.py, if one of the three sends
\* of an upload attempt fails with RequestError, the attempt is fatal and
\* the process ends, whatever the other two sends do.
C9_Claim ==
    (IsPired /\ sends # NoSends /\ \E i \in 1..3 : sends[i] = "RequestError") =>
        (outcome = "Fatal" /\ pc = "exited" /\ exitStatus = <<1>>)

C11_OneAttemptInFlight ==
    /\ [](inFlight \in {0, 1} /\ (inFlight = 1 <=> pc = "upload"))
    /\ [][/\ (pc' # pc /\ pc' \in {"read", "upload"}) => inFlight = 0
          /\ inFlight' < inFlight =>
                /\ outcome' # NoOutcome
                /\ (IsSensemon /\ outcome' \in {"Success", "RateLimited"})
                      => timeUpdate' = timeCurrent
                /\ IsPired => delayCounter' = 1]_vars

C11_Witness ==
    /\ prog = "pired" /\ pc = "upload" /\ inFlight = 1 /\ throttleRun >= 1

\* C12 (as claimed): in sensemon.main the readings of a tick are in the
\* history buffers of senseData before the upload decision of the tick is
\* evaluated, so they are there when the decision is taken, while the
\* upload attempt runs and when it has ended.
C12_Claim ==
    (IsSensemon /\ (pc \in {"decide", "upload"} \/ outcome # NoOutcome)) => recorded

\* C13: a KeyboardInterrupt raised anywhere in the loop of sensemon.main
\* (at the loop test, while sampling, recording or waiting, or during an
\* upload attempt) stops the loop in that step: the main thread is past the
\* loop, no upload attempt is in flight or begins afterwards, numUploads is
\* not changed by the interrupted attempt nor later, and, the main thread
\* going on, the clean-up after the loop runs and main returns.
C13_InterruptStops ==
    /\ []((IsSensemon /\ interrupted) =>
            (Stopped /\ exitNow /\ pc \in {"end", "exited"} /\ inFlight = 0))
    /\ [][(IsSensemon /\ interrupted') => numUploads' = numUploads]_vars
    /\ (IsSensemon /\ interrupted)
          ~> (pc = "exited" /\ cleanedUp /\ exitStatus = <<0>>)

C13_Witness ==
    /\ IsSensemon /\ interrupted /\ outcome = "Interrupt" /\ numUploads = 1
    /\ throttleRun = 1 /\ pc = "exited" /\ cleanedUp

\* C14 (as claimed): in the main loop of pired.py, once exit_now has set
\* EXIT_NOW no upload attempt begins, not even in the tick that was in
\* progress when the signal arrived.
C14_Claim ==
    [][(prog = "pired" /\ EXIT_NOW) => ~(pc # "upload" /\ pc' = "upload")]_vars

\* C15: in pired.py, once exit_now has set EXIT_NOW, the next evaluation of
\* the loop condition ends the loop, and, the main thread going on, the
\* clean-up after the loop (END log line, reset_LED) runs and the program
\* ends with status 0, unless the tick in progress ends with a fatal error
\* (or the program never reaches its loop, a feed look-up having failed).
C15_SignalTerminates ==
    /\ [][(prog = "pired" /\ EXIT_NOW /\ pc = "loop" /\ pc' # pc) => pc' = "end"]_vars
    /\ (prog = "pired" /\ EXIT_NOW)
          ~> (\/ pc = "exited" /\ cleanedUp /\ exitStatus = <<0>>
              \/ outcome = "Fatal"
              \/ StartupFailed)

C15_Witness ==
    /\ prog = "pired" /\ EXIT_NOW /\ pc = "exited" /\ cleanedUp
    /\ exitStatus = <<0>> /\ throttleRun = 1 /\ now > 0

\* C16 (as claimed): in enviromon.py, once exit_now has set the flag
\* EXIT_NOW of the module that defines it, the next evaluation of the loop
\* condition "while not EXIT_NOW" ends the loop.
C16_Claim ==
    [][(prog = "enviromon" /\ EXIT_NOW /\ pc = "loop" /\ pc' # pc) => pc' = "end"]_vars

\* C17 (as claimed): sensemon.main started with --cron stops its loop with
\* the first successful upload, whatever --uploads is: once an upload has
\* succeeded the loop is stopped and numUploads is 1.
C17_Claim ==
    (IsSensemon /\ ioUploadAndExit /\ numUploads >= 1) =>
        (Stopped /\ numUploads = 1)

\* a tick of sensemon.main has read its sensors
Sampled == IsSensemon /\ pc \in {"decide", "upload", "record", "wait"}

\* C18: with a damping factor F <= 0 the temperature of every tick is the
\* raw reading (tempComp = tempRaw, which is what is recorded), and the
\* window of CPU temperatures stays the empty list it was created as: no
\* CPU temperature is read, none is appended.
C18_DisabledIsRaw ==
    (IsSensemon /\ tempCompFactor[1] <= 0) =>
        /\ tempComp = tempRaw
        /\ cpuTempsQ = <<>>
        /\ ~cpuSampled

C18_Witness ==
    /\ Sampled /\ tempCompFactor[1] < 0 /\ pc = "wait" /\ recorded /\ now > 0
    /\ tempRaw = Float(22) /\ tempComp = Float(22) /\ cpuTempsQ = <<>>

\* C19: with F > 0 the compensated temperature t of a tick, the raw
\* reading a, the sum S and the number n of entries of the window satisfy
\* t = a - ((S / n - a) / F), that is (a - t) * F * n = S - n * a (written
\* without division, fractions as numerator and denominator); and t = a
\* whenever S / n = a.
C19_CompensationFormula ==
    (Sampled /\ tempCompFactor[1] > 0) =>
        LET F == tempCompFactor
            a == tempRaw
            t == tempComp
            S == Sum(cpuTempsQ)
            n == Len(cpuTempsQ)
        IN  /\ n >= 1
            /\ (a[1] * t[2] - t[1] * a[2]) * F[1] * n * S[2] * a[2]
                  = (S[1] * a[2] - n * a[1] * S[2]) * F[2] * a[2] * t[2]
            /\ (S[1] * a[2] = n * a[1] * S[2]) => t[1] * a[2] = a[1] * t[2]

C19_Witness ==
    /\ Sampled /\ tempCompFactor = Frac(9, 4) /\ cpuTempsQMaxLen = MAX_LEN_CPU_TEMPS
    /\ cpuTempsQ = <<Float(49), Float(22), Float(22), Float(49), Float(49)>>
    /\ tempRaw = Float(20)
    /\ tempComp = Frac(536, 45)

\* C20: with compensation on, the window holds cpuTempsQMaxLen entries in
\* every state, from the initial one, where they are all the first CPU
\* reading; only the sampling of a tick changes the window, and it drops
\* the oldest entry, moves the others up by one and puts the new CPU
\* reading last.
C20_WindowFifo ==
    /\ (IsSensemon /\ tempCompFactor[1] > 0) =>
            \E c \in CpuTemps : cpuTempsQ = [i \in 1..cpuTempsQMaxLen |-> Float(c)]
    /\ []((IsSensemon /\ tempCompFactor[1] > 0) => Len(cpuTempsQ) = cpuTempsQMaxLen)
    /\ [][(IsSensemon /\ tempCompFactor[1] > 0) =>
            /\ cpuTempsQ' # cpuTempsQ => pc = "read"
            /\ (pc = "read" /\ pc' = "decide") =>
                  /\ Len(cpuTempsQ') = Len(cpuTempsQ)
                  /\ \A i \in 1..(Len(cpuTempsQ) - 1) : cpuTempsQ'[i] = cpuTempsQ[i + 1]
                  /\ \E c \in CpuTemps : cpuTempsQ'[Len(cpuTempsQ')] = Float(c)]_vars

C20_Witness ==
    /\ Sampled /\ cpuTempsQMaxLen = 2 /\ tempCompFactor = Float(1)
    /\ cpuTempsQ = <<Float(49), Float(22)>> /\ numUploads = 1 /\ now > 20

\* C21: with compensation on, the average of a tick is taken after the CPU
\* reading of the tick was appended: it is the sum of the window as the
\* tick left it, the tick's reading its last entry, divided by the
\* capacity, and it is the average the compensated temperature of the tick
\* is computed from.
C21_AverageAfterAppend ==
    (Sampled /\ tempCompFactor[1] > 0) =>
        LET S == Sum(cpuTempsQ)
            F == tempCompFactor
            d == FracSub(tempRaw, tempComp)
            e == FracSub(cpuTempAvg, tempRaw)
        IN  /\ cpuTempAvg[1] * S[2] * cpuTempsQMaxLen = S[1] * cpuTempAvg[2]
            /\ d[1] * F[1] * e[2] = e[1] * d[2] * F[2]

C21_Witness ==
    /\ Sampled /\ tempCompFactor = Float(1) /\ cpuTempsQ = <<Float(22), Float(49)>>
    /\ cpuTempAvg = Frac(71, 2) /\ tempRaw = Float(20) /\ now > 3

\* C22: the compensation is a function of the readings fed to it, of F and
\* of the capacity alone.  The window starts as copies of the one CPU
\* reading taken at start-up; the sampling of a tick is the only step that
\* changes the window, the average or the temperatures, and it leaves the
\* window shifted by the tick's CPU reading c and the compensated
\* temperature a - ((S / capacity - a) / F), a the ambient reading and S
\* the sum of the shifted window: nothing of the upload schedule, of the
\* outcomes of the attempts or of an interrupt enters.
C22_Deterministic ==
    /\ (IsSensemon /\ tempCompFactor[1] > 0) =>
            \E c \in CpuTemps : cpuTempsQ = [i \in 1..cpuTempsQMaxLen |-> Float(c)]
    /\ [][(IsSensemon /\ tempCompFactor[1] > 0) =>
            IF pc = "read" /\ pc' = "decide"
            THEN \E r \in Readings, c \in CpuTemps :
                    LET q == Tail(Append(cpuTempsQ, Float(c)))
                        a == Float(r[1])
                        out == FracSub(a, FracDiv(FracSub(FracDiv(Sum(q), Float(cpuTempsQMaxLen)), a),
                                                  tempCompFactor))
                    IN  /\ cpuTempsQ' = q
                        /\ tempRaw' = a
                        /\ FracEq(tempComp', out)
            ELSE UNCHANGED <<cpuTempsQ, cpuTempAvg, tempRaw, tempComp>>]_vars

C22_Witness ==
    /\ Sampled /\ tempCompFactor = Float(1) /\ cpuTempsQ = <<Float(49), Float(49)>>
    /\ tempRaw = Float(22) /\ tempComp = Frac(-10, 2)
    /\ numUploads = 1 /\ throttleRun = 1 /\ pc = "wait"

\* C23 (as claimed): every tick of sensemon.main that has read its sensors
\* appends its sample to the history buffers, a tick with an upload attempt
\* too: when the attempt of a tick has ended and the main thread is past
\* the recording, or past the loop, the sample of the tick is in the
\* buffers.
C23_Claim ==
    (IsSensemon /\ outcome # NoOutcome /\ pc \in {"wait", "loop", "end", "exited"})
        => recorded

C25_BadFeedExits ==
    /\ [](StartupFailed =>
            /\ pc = "exited" /\ exitStatus = <<1>>
            /\ now = 0 /\ inFlight = 0 /\ outcome = NoOutcome /\ handed = NoCall
            /\ sends = NoSends /\ numUploads = 0 /\ ~recorded
            /\ tempRaw = Float(0) /\ reading = <<0, 0, 0>>)
    /\ [][StartupFailed' => pc = "start"]_vars

C25_Witness ==
    /\ prog = "enviromon" /\ feeds = <<"ok", "ok", "RequestError">>
    /\ pc = "exited" /\ exitStatus = <<1>>

\* C26: in sensemon.main the sleep between two consecutive ticks is never
\* shorter than APP_MIN_SENSOR_READ_WAIT, whatever WAIT is configured, with
\* and without the progress bar: the loop condition is tested again after a
\* tick only when the wait has taken at least that long, or when the loop
\* ends (exitNow).
C26_MinimumSleep ==
    [][/\ (IsSensemon /\ pc = "wait" /\ pc' = "loop") =>
              now' - now >= APP_MIN_SENSOR_READ_WAIT
       /\ (IsSensemon /\ pc = "record" /\ pc' = "loop") => exitNow
       /\ (IsSensemon /\ pc' = "read") => pc = "loop"]_vars

\* the second wait of a run with WAIT = -2 is over
C26_Witness ==
    /\ IsSensemon /\ pc = "loop" /\ ~WithProgressBar
    /\ Get(CONFIG, KWD_WAIT, DEF_WAIT) = -2 /\ now = 2 * APP_MIN_SENSOR_READ_WAIT

\* the second wait of a run with WAIT = 10, shown with the progress bar, is over
C26_WitnessProgressBar ==
    /\ IsSensemon /\ pc = "loop" /\ WithProgressBar
    /\ Get(CONFIG, KWD_WAIT, DEF_WAIT) = 10 /\ now = 20

\* C27 (as claimed): no step of the main loop of pired.py overwrites or loses
\* what a joystick handler assigned: the store of piRED.sleepCounter -= 1
\* writes one less than the value sleepCounter has at that moment, and the
\* main thread changes neither displMode nor displRotation.
C27_Claim ==
    [][(prog = "pired" /\ pc # "start" /\ pc' # pc) =>
          /\ sleepCounter' # sleepCounter => sleepCounter' = sleepCounter - 1
          /\ displMode' = displMode
          /\ displRotation' = displRotation]_vars

\* C28: in sensemon.main with maxUploads = -1 and without --cron the upload
\* count never stops the loop: exitNow is false after every upload attempt
\* that ends with a success or a ThrottlingError, whatever numUploads is,
\* and exitNow is true only after a KeyboardInterrupt.
C28_NeverStopsOnCount ==
    /\ []((IsSensemon /\ maxUploads = DEF_UPLOADS /\ ~ioUploadAndExit /\ exitNow)
              => interrupted)
    /\ [][(/\ IsSensemon /\ maxUploads = DEF_UPLOADS /\ ~ioUploadAndExit
           /\ (Ends("Success") \/ Ends("RateLimited"))) =>
              (~exitNow' /\ pc' = "record")]_vars

\* the third upload of a run without a limit has succeeded and the loop goes on
C28_Witness ==
    /\ IsSensemon /\ maxUploads = DEF_UPLOADS /\ ~ioUploadAndExit
    /\ pc = "record" /\ outcome = "Success" /\ numUploads = 3 /\ ~exitNow

\* C29: in pired.py and enviromon.py every upload attempt resets delayCounter
\* to 1 whatever its outcome (success, ThrottlingError, RequestError); a
\* ThrottlingError adds exactly ioThrottle to maxDelay, a success sets
\* maxDelay to ioDelay, a RequestError leaves it; maxDelay >= ioDelay in
\* every state when ioThrottle >= 0.
C29_AttemptResetsCounter ==
    /\ [][(IsPired /\ pc = "upload" /\ pc' # "upload") =>
              /\ delayCounter' = 1
              /\ outcome' = "RateLimited" => maxDelay' = maxDelay + ioThrottle
              /\ outcome' = "Success" => maxDelay' = ioDelay
              /\ outcome' = "Fatal" => maxDelay' = maxDelay]_vars
    /\ []((IsPired /\ ioThrottle >= 0) => maxDelay >= ioDelay)

\* an attempt ended with RequestError after two ThrottlingErrors
C29_Witness ==
    /\ IsPired /\ pc = "exited" /\ outcome = "Fatal" /\ delayCounter = 1
    /\ ioThrottle > 0 /\ maxDelay = ioDelay + 2 * ioThrottle

\* C30: in pired.py and enviromon.py an upload attempt is made in the very
\* first tick, for every configured ioDelay: the first tick, once its
\* sensors are read, comes to the upload attempt before any wait, and its
\* upload decision never takes the counting branch.
C30_FirstTickUploads ==
    /\ [][(IsPired /\ pc = "decide" /\ now = 0 /\ pc' # pc) => pc' = "upload"]_vars
    /\ (IsPired /\ pc = "read" /\ now = 0) ~> (pc = "upload" /\ now = 0)

\* the attempt of the first tick is under way, with DELAY = 3
C30_Witness ==
    /\ IsPired /\ pc = "upload" /\ now = 0 /\ ioDelay = 3
    /\ delayCounter = ioDelay /\ maxDelay = ioDelay

\* C31: in the main loop of pired.py (and enviromon.py) with ioDelay >= 1 and
\* ioThrottle >= 0, 1 <= delayCounter <= maxDelay in every reachable state,
\* so delayCounter / maxDelay, the fraction of the progress bar, is in (0, 1].
C31_CounterInRange ==
    (IsPired /\ ioDelay >= 1 /\ ioThrottle >= 0) =>
        /\ 1 <= delayCounter
        /\ delayCounter <= maxDelay
        /\ maxDelay > 0

\* the counter has reached a maxDelay that two ThrottlingErrors raised
C31_Witness ==
    /\ IsPired /\ ioDelay >= 1 /\ ioThrottle > 0 /\ pc = "decide"
    /\ delayCounter = maxDelay /\ maxDelay = ioDelay + 2 * ioThrottle

\* C32: in the main loop of pired.py (and enviromon.py) an upload attempt
\* that follows a non-fatal upload attempt begins exactly maxDelay ticks
\* after it, maxDelay being the value the outcome of the earlier attempt
\* left (ioDelay after a success, maxDelay + ioThrottle after a
\* ThrottlingError), for maxDelay >= 1; a tick takes one wait.
C32_AttemptSpacing ==
    [][(/\ IsPired /\ pc = "decide" /\ pc' # pc
        /\ lastAttempt >= 0 /\ maxDelay >= 1) =>
           (pc' = "upload" <=>
               now - lastAttempt = maxDelay * Get(CONFIG, KWD_WAIT, DEF_WAIT))]_vars

\* the second attempt after a ThrottlingError begins, DELAY + THROTTLE = 5
\* ticks after the first
C32_Witness ==
    /\ IsPired /\ pc = "upload" /\ throttleRun = 1 /\ ioThrottle = 2
    /\ maxDelay = 5 /\ now - lastAttempt = 5 * Get(CONFIG, KWD_WAIT, DEF_WAIT)

\* C33: in sensemon.main a tick in which no upload is due (timeSinceUpdate <
\* uploadDelay) makes no upload attempt and leaves uploadDelay, numUploads,
\* timeUpdate and exitNow as they were, in each of its steps from the upload
\* decision to the end of its wait (a KeyboardInterrupt, which ends the tick
\* and the loop, apart).
C33_NonDueTickFrame ==
    [][(/\ IsSensemon /\ pc \in {"decide", "upload", "record", "wait"}
        /\ timeSinceUpdate < uploadDelay
        /\ interrupted' = interrupted) =>
           /\ UNCHANGED <<uploadDelay, numUploads, timeUpdate, exitNow>>
           /\ pc' # "upload"]_vars

\* the wait of a tick without an upload attempt is over; nothing was uploaded yet
C33_Witness ==
    /\ IsSensemon /\ pc = "loop" /\ now > 0 /\ recorded /\ outcome = NoOutcome
    /\ timeSinceUpdate < uploadDelay /\ uploadDelay = ioDelay
    /\ numUploads = 0 /\ timeUpdate = 0 /\ ~exitNow

\* C34 (as claimed): in pired.py, whatever joystick events arrive, displMode
\* stays within 0..4, a LEFT or RIGHT press never selects the blank mode 0,
\* and an event with action RELEASED changes nothing.
C34_Claim ==
    /\ [](prog = "pired" => displMode \in DISPL_BLANK..DISPL_SPARKLE)
    /\ [][(prog = "pired" /\ presses' # presses) =>
              /\ stickPc' \in {"left", "right"} => displMode' # DISPL_BLANK
              /\ stickPc' = "idle" =>
                    UNCHANGED <<displMode, displRotation, sleepCounter>>]_vars

\* C34 (amended): when the configured DISPLAY is within 0..4, displMode stays
\* within 0..4 whatever joystick events arrive; a LEFT or RIGHT press moves
\* the mode by one within 1..4 with wrap-around (right from 4 gives 1, left
\* from 1 gives 4; from the blank mode left gives 4 and right gives 1), never
\* selects the blank mode 0, the two are inverse to each other on 1..4, and
\* the handler of each assigns displSleep to sleepCounter; an event with
\* action RELEASED changes nothing, whatever DISPLAY is.
C34_Amended ==
    /\ []((prog = "pired" /\ InitialDisplMode \in DISPL_BLANK..DISPL_SPARKLE)
              => displMode \in DISPL_BLANK..DISPL_SPARKLE)
    /\ [](\A m \in DISPL_TEMP..DISPL_SPARKLE :
              /\ ModeAfter("right", ModeAfter("left", m)) = m
              /\ ModeAfter("left", ModeAfter("right", m)) = m)
    /\ [][(/\ prog = "pired" /\ presses' # presses
           /\ InitialDisplMode \in DISPL_BLANK..DISPL_SPARKLE) =>
              /\ stickPc' = "left" =>
                    /\ displMode' = IF displMode \in {DISPL_BLANK, DISPL_TEMP}
                                    THEN DISPL_SPARKLE ELSE displMode - 1
                    /\ displMode' # DISPL_BLANK
              /\ stickPc' = "right" =>
                    /\ displMode' = IF displMode = DISPL_SPARKLE
                                    THEN DISPL_TEMP ELSE displMode + 1
                    /\ displMode' # DISPL_BLANK]_vars
    /\ [][(prog = "pired" /\ presses' # presses /\ stickPc' = "idle") =>
              UNCHANGED <<displMode, displRotation, sleepCounter>>]_vars
    /\ [][(prog = "pired" /\ stickPc \in {"left", "right"} /\ stickPc' = "idle") =>
              sleepCounter' = displSleep]_vars

\* the second event is a LEFT press that wrapped the mode around to 4 (from
\* mode 1 after a RIGHT press, or from the blank mode after a MIDDLE press);
\* its handler has yet to assign sleepCounter
C34_Witness ==
    /\ prog = "pired" /\ InitialDisplMode = DISPL_SPARKLE
    /\ presses = 2 /\ stickPc = "left" /\ displMode = DISPL_SPARKLE

\* C35 (as claimed): in the main loop of pired.py, with a display mode
\* within 1..4 and displSleep >= 0: while no joystick event has arrived,
\* sleepCounter is never negative and is lowered by exactly one in each tick
\* until it is 0, the display of the mode is drawn only in ticks with
\* sleepCounter > 1, the LED is blanked in the tick with sleepCounter = 1 and
\* nothing is written when sleepCounter is 0; after a MIDDLE press (sleepCounter
\* = 1, displMode = blank) the next tick blanks the LED once, so no later tick
\* finds sleepCounter above 1.
C35_Claim ==
    /\ []((prog = "pired" /\ presses = 0 /\ displSleep >= 0 /\ pc # "start")
              => sleepCounter \in 0..displSleep)
    /\ [][(/\ prog = "pired" /\ presses = 0 /\ displSleep >= 0
           /\ InitialDisplMode \in DISPL_TEMP..DISPL_SPARKLE) =>
              /\ (pc = "display" /\ pc' = "sleep") =>
                    /\ sleepCounter > 1 <=> led' \in {"temp", "press", "humid", "sparkle"}
                    /\ sleepCounter = 1 <=> led' = "blank"
                    /\ sleepCounter = 0 <=> led' = "none"
              /\ (pc = "sleep" /\ pc' = "decide") =>
                    (sleepCounter = 0 /\ sleepCounter' = 0)
              /\ (pc = "sleepstore" /\ pc' = "decide") =>
                    sleepCounter' = sleepCounter - 1]_vars
    /\ [][(/\ prog = "pired" /\ presses = 1 /\ stickPc = "idle"
           /\ InitialDisplMode \in DISPL_TEMP..DISPL_SPARKLE
           /\ displMode = DISPL_BLANK
           /\ pc = "display" /\ pc' = "sleep") =>
              sleepCounter <= 1]_vars

\* C36 (as claimed): on every path on which the process of pired.py ends
\* after init_SenseHat (stop signal, RequestError of a feed look-up at
\* start-up, RequestError of an upload attempt) reset_LED has been called
\* when the process exits.
C36_Claim == (prog = "pired" /\ pc = "exited") => cleanedUp
====
